---- MODULE Spec2Model ----
(***************************************************************************)
(* fastenum: the enumeration metaclass (EnumMeta) and the base member type *)
(* (Enum) of src/fastenum/fastenum.py as a state machine.                  *)
(*                                                                         *)
(* The state is the heap of enumeration types and members.  A class        *)
(* statement runs in steps: __prepare__, the bindings of the class body,   *)
(* then EnumMeta.__new__ one classdict item at a time (the per-member      *)
(* __init__ hook runs inside that step and may raise).  Between class      *)
(* statements the caller queries the published types.                      *)
(***************************************************************************)
EXTENDS Integers, Sequences, FiniteSets, TLC

\* ------------------------------------------------------------------ bounds
\* assignments executed by all class bodies together (failed ones included);
\* every class body executes at least one, so this bounds the types as well
MaxBindings == 2

\* ------------------------------------------------------------------ values
\* A Python value as the code sees it: its equality class (==), whether
\* hash() accepts it, and which descriptor accessors hasattr() finds on it.
V1h == [eq |-> 1, hashable |-> TRUE, acc |-> {}]
V1u == [eq |-> 1, hashable |-> FALSE, acc |-> {}]
V2h == [eq |-> 2, hashable |-> TRUE, acc |-> {}]
VGet == [eq |-> 3, hashable |-> TRUE, acc |-> {"get"}]
VSet == [eq |-> 4, hashable |-> TRUE, acc |-> {"set"}]
VDel == [eq |-> 5, hashable |-> TRUE, acc |-> {"delete"}]
NoVal == [eq |-> 0, hashable |-> TRUE, acc |-> {}]

PlainValues == {V1h, V1u, V2h}
Values == PlainValues \cup {VGet, VSet, VDel}

\* the assignments a class body may execute: public names bound to plain
\* values, one name bound to each kind of descriptor, a private name bound
\* to a plain value, and the definition of the per-member hook
BodyBindings ==
    {[key |-> n, val |-> v] : n \in {"A", "B"}, v \in PlainValues}
        \cup {[key |-> "B", val |-> v] : v \in {VGet, VSet, VDel}}
        \cup {[key |-> "_C", val |-> V1h], [key |-> "__init__", val |-> VGet]}

\* names a caller may ask for
QueryNames == {"A", "B", "a", "_C"}

\* str.startswith('_')
startswith_underscore(name) == name \in {"_C", "__init__", "__repr__", "__str__", "__hash__", "__format__", "__reduce_ex__"}

\* hash(str): some fixed function of the string
hash(name) ==
    CASE name = "A" -> 11
      [] name = "B" -> 12
      [] name = "a" -> 13
      [] name = "_C" -> 14
      [] OTHER -> 15

\* ---------------------------------------------------------- ordered dicts
\* collections.OrderedDict as a sequence of [key, val] items
od_keys(d) == {d[i].key : i \in 1..Len(d)}

od_index(d, k) == CHOOSE i \in 1..Len(d) : d[i].key = k

od_get(d, k) == d[od_index(d, k)].val

\* d[k] = v: a new key is appended, an existing key keeps its position
od_set(d, k, v) ==
    IF k \in od_keys(d)
    THEN [d EXCEPT ![od_index(d, k)] = [key |-> k, val |-> v]]
    ELSE Append(d, [key |-> k, val |-> v])

od_values(d) == [i \in 1..Len(d) |-> d[i].val]

\* ------------------------------------------------------------------ state
VARIABLES
    types,      \* sequence of type objects; types[1] is Enum
    members,    \* sequence of member objects, in allocation order
    pc,         \* "idle", "body", "new", "raised", "done"
    frame,      \* the class statement being executed
    res,        \* the outcome of the statement that has just finished
    iters       \* the generator held by each reader

vars == <<types, members, pc, frame, res, iters>>

EnumIdx == 1

\* the variables that hold a generator object returned by iter(T)
Readers == {"r1", "r2"}

\* a generator over cls._member_map_.values(): pos items consumed, out the
\* items it has yielded, done once it has raised StopIteration
NoIter == [live |-> FALSE, t |-> 0, pos |-> 0, out |-> <<>>, done |-> FALSE]

\* an attribute of a class: a member object (mem > 0) or a plain value
AttrPlain(v) == [mem |-> 0, val |-> v]
AttrMember(m) == [mem |-> m, val |-> NoVal]

\* what the last call of a user-defined hook saw: list(type(self)), at item k
NoObs == [called |-> FALSE, k |-> 0, seq |-> <<>>]

NoFrame == [base |-> 0, nbind |-> 0, last |-> [key |-> "", val |-> NoVal], classdict |-> <<>>,
            cls |-> 0, i |-> 0, exc |-> "none", obs |-> NoObs]

NoRes == [op |-> "none", t |-> 0, x |-> AttrPlain(NoVal), name |-> "", out |-> "none",
          mem |-> 0, via |-> "none", seq |-> <<>>, n |-> 0]

\* class Enum(metaclass = EnumMeta): its body binds only dunder methods
EnumClassdict ==
    << [key |-> "__repr__", val |-> VGet], [key |-> "__str__", val |-> VGet],
       [key |-> "__hash__", val |-> VGet], [key |-> "__format__", val |-> VGet],
       [key |-> "__reduce_ex__", val |-> VGet] >>

\* type.__new__: the class namespace is a copy of the classdict
\* (nbind: how many assignments the class body executed)
type_new(name, base, classdict, nbind) ==
    [name |-> name, base |-> base, classdict |-> classdict, nbind |-> nbind,
     attrs |-> [k \in od_keys(classdict) |-> AttrPlain(od_get(classdict, k))],
     member_map |-> <<>>, value_to_member_map |-> <<>>,
     published |-> FALSE, failed |-> FALSE]

Init ==
    /\ types = << [type_new("Enum", 0, EnumClassdict, Len(EnumClassdict)) EXCEPT !.published = TRUE] >>
    /\ members = <<>>
    /\ pc = "idle"
    /\ frame = NoFrame
    /\ res = NoRes
    /\ iters = [r \in Readers |-> NoIter]

\* ------------------------------------------------------------ class objects
TypeName(t) == IF t = EnumIdx THEN "Enum" ELSE <<"Enum", "T2", "T3", "T4", "T5">>[t]

\* the method resolution order of a class with one base: itself, then its bases
RECURSIVE mro(_, _)
mro(ts, t) == IF t = 0 THEN <<>> ELSE <<t>> \o mro(ts, ts[t].base)

issubclass(ts, c, t) == \E i \in 1..Len(mro(ts, c)) : mro(ts, c)[i] = t

isinstance_never(ts, ms, x, t) == FALSE

\* isinstance(value, cls): only member objects are instances of enum classes
isinstance(ts, ms, x, t) == x.mem # 0 /\ issubclass(ts, ms[x.mem].cls, t)

\* getattr(cls, name): the first class of the MRO whose namespace has the name
hasattr_cls(ts, t, name) == \E i \in 1..Len(mro(ts, t)) : name \in DOMAIN ts[mro(ts, t)[i]].attrs

getattr_cls(ts, t, name) ==
    LET m == mro(ts, t)
        i == CHOOSE j \in 1..Len(m) :
                /\ name \in DOMAIN ts[m[j]].attrs
                /\ \A k \in 1..(j - 1) : name \notin DOMAIN ts[m[k]].attrs
    IN ts[m[i]].attrs[name]

is_descriptor_get_only(obj) == "get" \in obj.acc

\* _is_descriptor(obj)
is_descriptor(obj) == "get" \in obj.acc \/ "set" \in obj.acc \/ "delete" \in obj.acc

\* ------------------------------------------------------- the class statement
bindingsDone == LET f[i \in 1..Len(types)] ==
                        IF i = EnumIdx THEN 0 ELSE f[i - 1] + types[i].nbind
                IN f[Len(types)]

\* EnumMeta.__prepare__: the class body gets an empty OrderedDict
Prepare(base) ==
    /\ pc = "idle"
    /\ bindingsDone < MaxBindings
    /\ types[base].published
    /\ pc' = "body"
    /\ frame' = [NoFrame EXCEPT !.base = base]
    /\ UNCHANGED <<types, members, res, iters>>

\* one assignment of the class body: classdict[name] = value
Bind(name, value) ==
    /\ pc = "body"
    /\ [key |-> name, val |-> value] \in BodyBindings
    /\ bindingsDone + frame.nbind < MaxBindings
    /\ frame' = [frame EXCEPT !.classdict = od_set(@, name, value), !.nbind = @ + 1,
                              !.last = [key |-> name, val |-> value]]
    /\ UNCHANGED <<types, members, pc, res, iters>>

NewStart_published ==
    /\ pc = "body"
    /\ frame.nbind >= 1
    /\ LET t == Len(types) + 1
           c == [type_new(TypeName(t), frame.base, frame.classdict, frame.nbind)
                    EXCEPT !.published = TRUE]
       IN /\ types' = Append(types, c)
          /\ frame' = [frame EXCEPT !.cls = t, !.i = 1]
    /\ pc' = "new"
    /\ UNCHANGED <<members, res, iters>>

\* EnumMeta.__new__, up to the loop: the class object and its two empty maps
\* (the bodies explored bind at least one name)
NewStart ==
    /\ pc = "body"
    /\ frame.nbind >= 1
    /\ LET t == Len(types) + 1
           c == type_new(TypeName(t), frame.base, frame.classdict, frame.nbind)
       IN /\ types' = Append(types, c)
          /\ frame' = [frame EXCEPT !.cls = t, !.i = 1]
    /\ pc' = "new"
    /\ UNCHANGED <<members, res, iters>>

new_member_hash_value(t, name, value) ==
    [cls |-> t, name |-> name, value |-> value,
     repr |-> <<TypeName(t), name, value>>, hash |-> value.eq]

\* the member object as it is when the hook is called
new_member(t, name, value) ==
    [cls |-> t, name |-> name, value |-> value,
     repr |-> <<TypeName(t), name, value>>, hash |-> hash(name)]

\* does the class define or inherit a user __init__ (object.__init__ never raises)
has_hook(ts, t) == hasattr_cls(ts, t, "__init__")

value_map_store_first(vm, value, m) ==
    IF value.hashable /\ value.eq \notin od_keys(vm) THEN od_set(vm, value.eq, m) ELSE vm

\* enum_class._value_to_member_map_[value] = member, TypeError swallowed
value_map_store(vm, value, m) == IF value.hashable THEN od_set(vm, value.eq, m) ELSE vm

publish_member_no_setattr(c, name, value, m) ==
    [c EXCEPT !.member_map = od_set(@, name, m),
              !.value_to_member_map = value_map_store(@, value, m)]

\* the assignments after the hook: setattr and the two indexes
publish_member(c, name, value, m) ==
    [c EXCEPT !.attrs = (name :> AttrMember(m)) @@ @,
              !.member_map = od_set(@, name, m),
              !.value_to_member_map = value_map_store(@, value, m)]

\* member.__init__() of a user-defined hook runs before setattr and the index
\* insertions of its member: iterating type(self) there gives the name index so far
hook_obs(ts, fr) ==
    IF has_hook(ts, fr.cls)
    THEN [called |-> TRUE, k |-> fr.i, seq |-> od_values(ts[fr.cls].member_map)]
    ELSE fr.obs

NewStep_swallow ==
    /\ pc = "new"
    /\ frame.i <= Len(frame.classdict)
    /\ LET name == frame.classdict[frame.i].key
           value == frame.classdict[frame.i].val
           t == frame.cls
           m == Len(members) + 1
       IN IF ~startswith_underscore(name) /\ ~is_descriptor(value)
          THEN /\ members' = Append(members, new_member(t, name, value))
               /\ \/ /\ has_hook(types, t)
                     /\ types' = [types EXCEPT ![t] = publish_member(@, name, value, m)]
                     /\ frame' = [frame EXCEPT !.exc = "HookError", !.i = @ + 1,
                                               !.obs = hook_obs(types, frame)]
                     /\ UNCHANGED pc
                  \/ /\ types' = [types EXCEPT ![t] = publish_member(@, name, value, m)]
                     /\ frame' = [frame EXCEPT !.i = @ + 1, !.obs = hook_obs(types, frame)]
                     /\ UNCHANGED pc
          ELSE /\ frame' = [frame EXCEPT !.i = @ + 1]
               /\ UNCHANGED <<types, members, pc>>
    /\ UNCHANGED <<res, iters>>

\* one iteration of the loop of EnumMeta.__new__
NewStep ==
    /\ pc = "new"
    /\ frame.i <= Len(frame.classdict)
    /\ LET name == frame.classdict[frame.i].key
           value == frame.classdict[frame.i].val
           t == frame.cls
           m == Len(members) + 1
       IN IF ~startswith_underscore(name) /\ ~is_descriptor(value)
          THEN /\ members' = Append(members, new_member(t, name, value))
               /\ \/ /\ has_hook(types, t)
                     /\ pc' = "raised"
                     /\ frame' = [frame EXCEPT !.exc = "HookError",
                                               !.obs = hook_obs(types, frame)]
                     /\ UNCHANGED types
                  \/ /\ types' = [types EXCEPT ![t] = publish_member(@, name, value, m)]
                     /\ frame' = [frame EXCEPT !.i = @ + 1, !.obs = hook_obs(types, frame)]
                     /\ UNCHANGED pc
          ELSE /\ frame' = [frame EXCEPT !.i = @ + 1]
               /\ UNCHANGED <<types, members, pc>>
    /\ UNCHANGED <<res, iters>>

\* return enum_class: the class statement binds the finished type
NewReturn ==
    /\ pc = "new"
    /\ frame.i > Len(frame.classdict)
    /\ types' = [types EXCEPT ![frame.cls].published = TRUE]
    /\ pc' = "done"
    /\ frame' = NoFrame
    /\ res' = [NoRes EXCEPT !.op = "class", !.t = frame.cls, !.out = "return"]
    /\ UNCHANGED <<members, iters>>

\* the hook's exception leaves __new__ and the class statement
Unwind ==
    /\ pc = "raised"
    /\ types' = [types EXCEPT ![frame.cls].failed = TRUE]
    /\ pc' = "done"
    /\ frame' = NoFrame
    /\ res' = [NoRes EXCEPT !.op = "class", !.t = frame.cls, !.out = frame.exc]
    /\ UNCHANGED <<members, iters>>

Construct ==
    \/ \E base \in 1..Len(types) : Prepare(base)
    \/ \E b \in BodyBindings : Bind(b.key, b.val)
    \/ NewStart
    \/ NewStep
    \/ NewReturn
    \/ Unwind

\* ----------------------------------------------------------------- queries
\* what a caller can pass: a plain value or a member of a published type
Plain(v) == AttrPlain(v)

Member(m) == AttrMember(m)

QueryValues == PlainValues \cup {VGet}

reachable_members == {m \in 1..Len(members) : types[members[m].cls].published}

Inputs == {Plain(v) : v \in QueryValues} \cup {Member(m) : m \in reachable_members}

\* member.value == value: a member object equals only itself, never a plain value
value_eq(stored, x) == x.mem = 0 /\ stored.eq = x.val.eq

\* cls._value_to_member_map_[value]: "TypeError" (unhashable), "KeyError" or the member
value_map_lookup_miss(vm, x) == [out |-> "KeyError", mem |-> 0, via |-> "index"]

\* cls._value_to_member_map_[value]: TypeError for an unhashable key
value_map_lookup(vm, x) ==
    IF x.mem = 0 /\ ~x.val.hashable THEN [out |-> "TypeError", mem |-> 0, via |-> "index"]
    ELSE IF x.mem = 0 /\ x.val.eq \in od_keys(vm)
         THEN [out |-> "return", mem |-> od_get(vm, x.val.eq), via |-> "index"]
    ELSE [out |-> "KeyError", mem |-> 0, via |-> "index"]

linear_search_none(ms, mm, x) == [out |-> "ValueError", mem |-> 0, via |-> "scan"]

\* for member in cls._member_map_.values(): if member.value == value: return member
linear_search(ms, mm, x) ==
    LET hits == {i \in 1..Len(mm) : value_eq(ms[mm[i].val].value, x)}
    IN IF hits = {} THEN [out |-> "ValueError", mem |-> 0, via |-> "scan"]
       ELSE [out |-> "return", mem |-> mm[CHOOSE i \in hits : \A j \in hits : i <= j].val,
             via |-> "scan"]

\* EnumMeta.__call__(cls, value)
EnumMeta_call(ts, ms, t, x) ==
    IF isinstance(ts, ms, x, t) THEN [out |-> "return", mem |-> x.mem, via |-> "isinstance"]
    ELSE LET r == value_map_lookup(ts[t].value_to_member_map, x)
         IN IF r.out = "return" THEN r ELSE linear_search(ms, ts[t].member_map, x)

\* EnumMeta.__getitem__(cls, name)
EnumMeta_getitem(ts, t, name) ==
    IF name \in od_keys(ts[t].member_map)
    THEN [out |-> "return", mem |-> od_get(ts[t].member_map, name)]
    ELSE [out |-> "KeyError", mem |-> 0]

\* EnumMeta.__iter__(cls), consumed by list()
EnumMeta_iter(ts, t) == od_values(ts[t].member_map)

reversed(s) == [i \in 1..Len(s) |-> s[Len(s) + 1 - i]]

EnumMeta_reversed_forward(ts, t) == EnumMeta_iter(ts, t)

\* EnumMeta.__reversed__(cls)
EnumMeta_reversed(ts, t) == reversed(EnumMeta_iter(ts, t))

\* EnumMeta.__len__(cls)
EnumMeta_len(ts, t) == Len(ts[t].member_map)

Enum_reduce_ex_base(ms, m) == [cls |-> EnumIdx, arg |-> Plain(ms[m].value)]

\* Enum.__reduce_ex__(self, proto)
Enum_reduce_ex(ms, m) == [cls |-> ms[m].cls, arg |-> Plain(ms[m].value)]

\* Enum.__hash__(self): the cached hash
Enum_hash(ms, m) == ms[m].hash

\* Enum defines no __eq__: two members are equal only if they are one object
Enum_eq(a, b) == a = b

\* two members are the same key of a dict or set: equal hashes, then identity or ==
same_key(ms, a, b) == Enum_hash(ms, a) = Enum_hash(ms, b) /\ (a = b \/ Enum_eq(a, b))

\* set(seq): the keys kept when the members of seq are inserted one by one
set_of(ms, seq) ==
    {seq[i] : i \in {j \in 1..Len(seq) : \A k \in 1..(j - 1) : ~same_key(ms, seq[k], seq[j])}}

Query(t) == pc = "idle" /\ t \in 1..Len(types) /\ types[t].published

Call(t, x) ==
    /\ Query(t)
    /\ LET r == EnumMeta_call(types, members, t, x)
       IN res' = [NoRes EXCEPT !.op = "call", !.t = t, !.x = x, !.out = r.out, !.mem = r.mem,
                               !.via = r.via]
    /\ pc' = "done"
    /\ UNCHANGED <<types, members, frame, iters>>

GetItem(t, name) ==
    /\ Query(t)
    /\ LET r == EnumMeta_getitem(types, t, name)
       IN res' = [NoRes EXCEPT !.op = "getitem", !.t = t, !.name = name, !.out = r.out, !.mem = r.mem]
    /\ pc' = "done"
    /\ UNCHANGED <<types, members, frame, iters>>

ListIter(t) ==
    /\ Query(t)
    /\ res' = [NoRes EXCEPT !.op = "iter", !.t = t, !.out = "return", !.seq = EnumMeta_iter(types, t)]
    /\ pc' = "done"
    /\ UNCHANGED <<types, members, frame, iters>>

ListReversed(t) ==
    /\ Query(t)
    /\ res' = [NoRes EXCEPT !.op = "reversed", !.t = t, !.out = "return", !.seq = EnumMeta_reversed(types, t)]
    /\ pc' = "done"
    /\ UNCHANGED <<types, members, frame, iters>>

LenOf(t) ==
    /\ Query(t)
    /\ res' = [NoRes EXCEPT !.op = "len", !.t = t, !.out = "return", !.n = EnumMeta_len(types, t)]
    /\ pc' = "done"
    /\ UNCHANGED <<types, members, frame, iters>>

\* pickle round trip: __reduce_ex__, then the reduced callable on its argument
PickleRoundTrip(m) ==
    /\ pc = "idle"
    /\ m \in reachable_members
    /\ LET red == Enum_reduce_ex(members, m)
           r == EnumMeta_call(types, members, red.cls, red.arg)
       IN res' = [NoRes EXCEPT !.op = "pickle", !.t = red.cls, !.x = red.arg, !.n = m,
                               !.out = r.out, !.mem = r.mem, !.via = r.via]
    /\ pc' = "done"
    /\ UNCHANGED <<types, members, frame, iters>>

\* hash(m)
HashOf(m) ==
    /\ pc = "idle"
    /\ m \in reachable_members
    /\ res' = [NoRes EXCEPT !.op = "hash", !.t = members[m].cls, !.mem = m, !.out = "return",
                            !.n = Enum_hash(members, m)]
    /\ pc' = "done"
    /\ UNCHANGED <<types, members, frame, iters>>

\* set(T): the members of the type as keys of a hash-based container
SetOf(t) ==
    /\ Query(t)
    /\ LET keys == set_of(members, EnumMeta_iter(types, t))
       IN res' = [NoRes EXCEPT !.op = "set", !.t = t, !.out = "return", !.n = Cardinality(keys)]
    /\ pc' = "done"
    /\ UNCHANGED <<types, members, frame, iters>>

\* the statement is over: its value is dropped and the next statement may start
EndStatement ==
    /\ pc = "done"
    /\ pc' = "idle"
    /\ res' = NoRes
    /\ UNCHANGED <<types, members, frame, iters>>

Queries ==
    \/ \E t \in 1..Len(types), x \in Inputs : Call(t, x)
    \/ \E t \in 1..Len(types), name \in QueryNames : GetItem(t, name)
    \/ \E t \in 1..Len(types) : ListIter(t)
    \/ \E t \in 1..Len(types) : ListReversed(t)
    \/ \E t \in 1..Len(types) : LenOf(t)
    \/ \E m \in 1..Len(members) : PickleRoundTrip(m)
    \/ \E m \in 1..Len(members) : HashOf(m)
    \/ \E t \in 1..Len(types) : SetOf(t)

Next == Construct \/ Queries \/ EndStatement

Spec == Init /\ [][Next]_vars

\* ------------------------------------------------------ attribute assignment
\* member.name and member.value are plain instance attributes (no __slots__,
\* no property, no __setattr__): an assignment by the caller replaces them,
\* and the cached _repr and _hash stay as they were
SetName(m, name) ==
    /\ pc = "idle"
    /\ m \in reachable_members
    /\ members' = [members EXCEPT ![m].name = name]
    /\ pc' = "done"
    /\ res' = [NoRes EXCEPT !.op = "setattr", !.t = members[m].cls, !.n = m, !.name = name,
                            !.out = "return"]
    /\ UNCHANGED <<types, frame, iters>>

SetValue(m, value) ==
    /\ pc = "idle"
    /\ m \in reachable_members
    /\ members' = [members EXCEPT ![m].value = value]
    /\ pc' = "done"
    /\ res' = [NoRes EXCEPT !.op = "setattr", !.t = members[m].cls, !.n = m, !.x = Plain(value),
                            !.out = "return"]
    /\ UNCHANGED <<types, frame, iters>>

Assign ==
    \/ \E m \in 1..Len(members), name \in QueryNames : SetName(m, name)
    \/ \E m \in 1..Len(members), value \in PlainValues : SetValue(m, value)

NextAssign == Next \/ Assign

SpecAssign == Init /\ [][NextAssign]_vars

\* ------------------------------------------------------------- generators
IterNew_shared(r, t) ==
    /\ Query(t)
    /\ ~iters[r].live \/ iters[r].done
    /\ LET others == {q \in Readers \ {r} : iters[q].live /\ iters[q].t = t}
           start == IF others = {} THEN 0 ELSE iters[CHOOSE q \in others : TRUE].pos
       IN iters' = [iters EXCEPT ![r] = [NoIter EXCEPT !.live = TRUE, !.t = t, !.pos = start]]
    /\ UNCHANGED <<types, members, pc, frame, res>>

\* r = iter(T): EnumMeta.__iter__ returns a new generator; nothing is read yet
\* (a reader takes a new generator once it has used up the one it holds)
IterNew(r, t) ==
    /\ Query(t)
    /\ ~iters[r].live \/ iters[r].done
    /\ iters' = [iters EXCEPT ![r] = [NoIter EXCEPT !.live = TRUE, !.t = t]]
    /\ UNCHANGED <<types, members, pc, frame, res>>

\* next(r): the generator reads the next item of the values view of the name
\* index as it is now, or raises StopIteration, and goes on raising it
IterNext(r) ==
    /\ pc = "idle"
    /\ iters[r].live
    /\ LET it == iters[r]
           view == od_values(types[it.t].member_map)
       IN iters' = [iters EXCEPT ![r] =
                        IF it.done THEN it
                        ELSE IF it.pos < Len(view)
                        THEN [it EXCEPT !.pos = @ + 1, !.out = Append(@, view[it.pos + 1])]
                        ELSE [it EXCEPT !.done = TRUE]]
    /\ UNCHANGED <<types, members, pc, frame, res>>

Iterate ==
    \/ \E r \in Readers, t \in 1..Len(types) : IterNew(r, t)
    \/ \E r \in Readers : IterNext(r)

\* class statements run at start-up, before any reader holds a generator
Startup == (\A r \in Readers : ~iters[r].live) /\ Construct

NextIter == Startup \/ EndStatement \/ Iterate

SpecIter == Init /\ [][NextIter]_vars


\* -------------------------------------------------------------- properties
\* the members in a type's own name index
own_members(t) == {types[t].member_map[i].val : i \in 1..Len(types[t].member_map)}

\* the members of t whose value equals the input x
equal_members(t, x) == {m \in own_members(t) : value_eq(members[m].value, x)}

\* a binding that is to become a member: a public name, a value with no accessor
is_member_binding(n, v) == n \in {"A", "B", "a"} /\ v.acc = {}

\* the names of the classdict that are to become members
declared_member_names(classdict) ==
    {n \in od_keys(classdict) : is_member_binding(n, od_get(classdict, n))}

\* the position of member m's declaration in the classdict of its class
decl_pos(m) == od_index(types[members[m].cls].classdict, members[m].name)

\* C1: T(v) returns m whenever exactly one member m of T has a value equal
\* to v, for hashable v (index hit) and for unhashable v (linear scan).
C1_UniqueValueLookup ==
    (res.op = "call" /\ res.x.mem = 0 /\ Cardinality(equal_members(res.t, res.x)) = 1)
        => /\ res.out = "return"
           /\ equal_members(res.t, res.x) = {res.mem}
           /\ (~res.x.val.hashable => res.via = "scan")
           /\ (res.x.val.hashable /\ members[res.mem].value.hashable) => res.via = "index"

\* an unhashable value of exactly one member of a type with two members, looked up
C1_Witness ==
    /\ res.op = "call" /\ res.x.mem = 0 /\ ~res.x.val.hashable
    /\ Cardinality(own_members(res.t)) = 2
    /\ Cardinality(equal_members(res.t, res.x)) = 1
    /\ \E m \in equal_members(res.t, res.x) : ~members[m].value.hashable /\ res.mem = m

\* C2: T(m) returns m itself for every member m of T, by the isinstance
\* test alone (neither the value index nor the scan is consulted).
C2_CoercionIdempotent ==
    (res.op = "call" /\ res.x.mem \in own_members(res.t))
        => res.out = "return" /\ res.mem = res.x.mem /\ res.via = "isinstance"

\* a member whose value another member shares, passed to its own type
C2_Witness ==
    /\ res.op = "call" /\ res.x.mem \in own_members(res.t)
    /\ res.mem = res.x.mem
    /\ Cardinality(equal_members(res.t, Plain(members[res.x.mem].value))) = 2

\* the members of t that hold a hashable value equal to the hashable value v
hashable_sharers(t, v) ==
    {m \in own_members(t) : members[m].value.hashable /\ members[m].value.eq = v.eq}

last_declared(D) == CHOOSE m \in D : \A o \in D : decl_pos(o) <= decl_pos(m)

\* C3: when several members share an equal hashable value v, the value
\* index holds the one declared last (declaration order = order of the
\* names in the classdict), T(v) returns it, and every sharer is still returned
\* by T[its name] and yielded by iteration.
C3_LastWriterWins ==
    \A t \in 1..Len(types) : \A v \in {w \in PlainValues : w.hashable} :
        LET D == hashable_sharers(t, v)
        IN (types[t].published /\ Cardinality(D) >= 2) =>
            /\ v.eq \in od_keys(types[t].value_to_member_map)
            /\ od_get(types[t].value_to_member_map, v.eq) = last_declared(D)
            /\ (res.op = "call" /\ res.t = t /\ res.x = Plain(v))
                    => res.out = "return" /\ res.mem = last_declared(D)
            /\ (res.op = "getitem" /\ res.t = t /\ \E m \in D : members[m].name = res.name)
                    => res.out = "return" /\ res.mem \in D /\ members[res.mem].name = res.name
            /\ (res.op = "iter" /\ res.t = t)
                    => \A m \in D : \E i \in 1..Len(res.seq) : res.seq[i] = m

\* Flags(1) with A = 1, B = 1
C3_Witness ==
    /\ res.op = "call" /\ res.x.mem = 0 /\ res.x.val.hashable
    /\ Cardinality(hashable_sharers(res.t, res.x.val)) = 2
    /\ res.mem = last_declared(hashable_sharers(res.t, res.x.val))

\* C4: list(T) yields each member once, in declaration order (order of
\* the names in the classdict), and list(reversed(T)) is list(T) reversed.
C4_IterationOrder ==
    /\ res.op = "iter" =>
        LET ns == declared_member_names(types[res.t].classdict)
        IN /\ Len(res.seq) = Cardinality(ns)
           /\ \A i \in 1..Len(res.seq) :
                /\ members[res.seq[i]].cls = res.t
                /\ members[res.seq[i]].name \in ns
           /\ \A i, j \in 1..Len(res.seq) :
                i < j => /\ members[res.seq[i]].name # members[res.seq[j]].name
                         /\ decl_pos(res.seq[i]) < decl_pos(res.seq[j])
    /\ res.op = "reversed" =>
        LET fwd == EnumMeta_iter(types, res.t)
        IN /\ Len(res.seq) = Len(fwd)
           /\ \A i \in 1..Len(fwd) : res.seq[i] = fwd[Len(fwd) + 1 - i]

\* reversed(T) of a type with two members
C4_Witness ==
    /\ res.op = "reversed" /\ Len(res.seq) = 2
    /\ decl_pos(res.seq[1]) > decl_pos(res.seq[2])


\* C5: T(x) returns a member or raises invalid-value, and raises exactly
\* when x is not a member of T and no member's value equals x; T[n] returns
\* a member or raises missing-key, and raises exactly when n is not a member
\* name; nothing else happens.
C5_LookupTotal ==
    /\ res.op = "call" =>
        /\ res.out \in {"return", "ValueError"}
        /\ res.out = "return" => res.mem \in 1..Len(members)
        /\ res.out = "ValueError" <=>
                (res.x.mem \notin own_members(res.t) /\ equal_members(res.t, res.x) = {})
    /\ res.op = "getitem" =>
        /\ res.out \in {"return", "KeyError"}
        /\ res.out = "return" => res.mem \in 1..Len(members)
        /\ res.out = "KeyError" <=> res.name \notin {members[m].name : m \in own_members(res.t)}

\* C6: T[n] succeeds only for a declared member name, returns the member
\* named n, which is the class attribute T.n; two names never share a
\* member; a name bound twice in the body has one classdict entry, holding
\* the later value, and so yields one member with that value.
C6_NameIndex ==
    /\ (pc = "body" /\ frame.nbind >= 1) =>
            /\ Cardinality({i \in 1..Len(frame.classdict) :
                                frame.classdict[i].key = frame.last.key}) = 1
            /\ \A i \in 1..Len(frame.classdict) :
                    frame.classdict[i].key = frame.last.key
                        => frame.classdict[i].val = frame.last.val
    /\ \A t \in 1..Len(types) : types[t].published =>
            /\ \A i, j \in 1..Len(types[t].member_map) :
                    i # j => /\ types[t].member_map[i].key # types[t].member_map[j].key
                             /\ types[t].member_map[i].val # types[t].member_map[j].val
            /\ \A i \in 1..Len(types[t].member_map) :
                    LET n == types[t].member_map[i].key
                        m == types[t].member_map[i].val
                    IN /\ members[m].name = n
                       /\ members[m].value = od_get(types[t].classdict, n)
                       /\ getattr_cls(types, t, n) = AttrMember(m)
    /\ res.op = "getitem" =>
            /\ res.out = "return" <=> res.name \in declared_member_names(types[res.t].classdict)
            /\ res.out = "return" =>
                    /\ members[res.mem].name = res.name
                    /\ members[res.mem].cls = res.t
                    /\ getattr_cls(types, res.t, res.name) = AttrMember(res.mem)

\* T["A"] on a type whose body bound A twice
C6_Witness ==
    /\ res.op = "getitem" /\ res.out = "return"
    /\ types[res.t].nbind > Len(types[res.t].classdict)
    /\ members[res.mem].name = res.name

\* C7: once a type is finished nothing changes its members, their names,
\* their values or their order: the indexes stay as they are and the name and
\* value of a member stay what construction made them.
C7_Immutable ==
    [][\A t \in 1..Len(types) : types[t].published =>
            /\ types'[t].member_map = types[t].member_map
            /\ types'[t].value_to_member_map = types[t].value_to_member_map
            /\ \A m \in own_members(t) :
                    /\ members'[m].name = members[m].name
                    /\ members'[m].value = members[m].value]_vars

\* the members allocated for class t
allocated(t) == {m \in 1..Len(members) : members[m].cls = t}

\* every member object a caller can get hold of: class attributes and
\* indexes of the published types, and the result of the last statement
caller_reachable ==
    UNION {own_members(t) \cup {types[t].attrs[k].mem : k \in DOMAIN types[t].attrs}
              \cup {types[t].value_to_member_map[i].val :
                        i \in 1..Len(types[t].value_to_member_map)} :
           t \in {u \in 1..Len(types) : types[u].published}}
        \cup {res.mem} \cup {res.seq[i] : i \in 1..Len(res.seq)}

C9_MemberSelection ==
    /\ \A t \in 1..Len(types) : types[t].published =>
        LET cd == types[t].classdict
            ns == declared_member_names(cd)
        IN /\ {types[t].member_map[i].key : i \in 1..Len(types[t].member_map)} = ns
           /\ Len(types[t].member_map) = Cardinality(ns)
           /\ Cardinality(allocated(t)) = Cardinality(ns)
           /\ \A k \in od_keys(cd) \ ns :
                /\ types[t].attrs[k] = AttrPlain(od_get(cd, k))
                /\ \A m \in allocated(t) : members[m].name # k
           /\ \A i \in 1..Len(types[t].value_to_member_map) :
                /\ types[t].value_to_member_map[i].val \in own_members(t)
                /\ members[types[t].value_to_member_map[i].val].value.acc = {}
    /\ res.op = "len" => res.n = Cardinality(declared_member_names(types[res.t].classdict))
    /\ res.op = "iter" => Len(res.seq) = Cardinality(declared_member_names(types[res.t].classdict))

\* len(T) of a type with a member and a skipped binding
C9_Witness ==
    /\ res.op = "len" /\ res.n = 1
    /\ Len(types[res.t].classdict) = 2

\* C10: pickling m reduces to (type of m, (m.value,)); calling the type on
\* the value succeeds with a member of that type whose value equals m.value,
\* and with m itself unless another member has an equal value.
C10_PickleRoundTrip ==
    res.op = "pickle" =>
        LET m == res.n
        IN /\ res.t = members[m].cls
           /\ res.x = Plain(members[m].value)
           /\ res.out = "return"
           /\ res.mem \in own_members(res.t)
           /\ members[res.mem].cls = members[m].cls
           /\ members[res.mem].value.eq = members[m].value.eq
           /\ (equal_members(res.t, res.x) = {m}) => res.mem = m
           /\ res.mem # m => Cardinality(equal_members(res.t, res.x)) >= 2

\* a round trip that comes back as another, value-equal member
C10_Witness ==
    /\ res.op = "pickle" /\ res.out = "return"
    /\ res.mem # res.n
    /\ members[res.mem].value.eq = members[res.n].value.eq


\* C11: hash(m) is hash(m.name), whatever the value is, and members are
\* compared by identity: the members of a type are pairwise distinct keys of
\* a hash-based container, also when their values are equal.
C11_HashFromName ==
    /\ \A m \in 1..Len(members) : Enum_hash(members, m) = hash(members[m].name)
    /\ res.op = "hash" => res.n = hash(members[res.mem].name)
    /\ \A a, b \in 1..Len(members) :
            (a # b /\ members[a].cls = members[b].cls) => ~same_key(members, a, b)
    /\ res.op = "set" => res.n = Cardinality(own_members(res.t))

\* set(T) of a type whose two members hold equal values
C11_Witness ==
    /\ res.op = "set" /\ res.n = 2
    /\ \E a, b \in own_members(res.t) :
            a # b /\ members[a].value.eq = members[b].value.eq /\ members[a].name # members[b].name


\* the names of the members in a sequence of members
names_of(seq) == {members[seq[i]].name : i \in 1..Len(seq)}

C13_IndexIsCache ==
    (res.op = "call" /\ res.x.mem \notin own_members(res.t)) =>
        LET ls == linear_search(members, types[res.t].member_map, res.x)
        IN res.out = ls.out /\ res.mem = ls.mem

\* C13 (amended): T(x) returns x itself when x is an instance of T; else
\* the member declared last among those holding a hashable value equal to a
\* hashable x, when there is one; else what the scan in declaration order
\* gives (the first member whose value equals x, or invalid-value).
C13_IndexThenScan ==
    res.op = "call" =>
        LET ls == linear_search(members, types[res.t].member_map, res.x)
            D == IF res.x.mem = 0 /\ res.x.val.hashable
                 THEN hashable_sharers(res.t, res.x.val) ELSE {}
        IN IF isinstance(types, members, res.x, res.t)
           THEN res.out = "return" /\ res.mem = res.x.mem
           ELSE IF D # {}
           THEN res.out = "return" /\ res.mem = last_declared(D) /\ res.via = "index"
           ELSE res.out = ls.out /\ res.mem = ls.mem /\ res.via = "scan"

\* T(x) answered by the index with another member than the scan's first match
C13_Witness ==
    /\ res.op = "call" /\ res.x.mem = 0 /\ res.via = "index" /\ res.out = "return"
    /\ linear_search(members, types[res.t].member_map, res.x).out = "return"
    /\ linear_search(members, types[res.t].member_map, res.x).mem # res.mem


\* C15: when T(x) returns, the result is a member found in T's own name
\* index, also when x is a member of a subtype of T and when T is the base Enum.
C15_ResultInOwnIndex ==
    (res.op = "call" /\ res.out = "return") =>
        /\ res.mem \in own_members(res.t)
        /\ EnumMeta_getitem(types, res.t, members[res.mem].name)
                = [out |-> "return", mem |-> res.mem]


\* C14: every iter(T) gives a new generator that starts at the first
\* member: however the steps of several generators are interleaved, what each
\* has yielded is a prefix of list(T), the whole of list(T) once it has ended,
\* and a step of one generator changes neither another generator nor the
\* indexes of any type.
C14_IndependentIterators ==
    /\ [](\A r \in Readers : iters[r].live =>
            LET full == EnumMeta_iter(types, iters[r].t)
            IN /\ iters[r].pos = Len(iters[r].out)
               /\ Len(iters[r].out) <= Len(full)
               /\ iters[r].out = SubSeq(full, 1, Len(iters[r].out))
               /\ iters[r].done => iters[r].out = full)
    /\ [][\A r \in Readers : iters'[r] # iters[r] =>
            /\ \A q \in Readers \ {r} : iters'[q] = iters[q]
            /\ types' = types /\ members' = members
            /\ (iters[r].live /\ iters'[r].t = iters[r].t
                    /\ Len(iters'[r].out) >= Len(iters[r].out))
                    => iters[r].out = SubSeq(iters'[r].out, 1, Len(iters[r].out))]_vars

\* two generators over one type with two members: one has ended, the other
\* is halfway
C14_Witness ==
    /\ iters["r1"].live /\ iters["r2"].live
    /\ iters["r1"].t = iters["r2"].t
    /\ iters["r1"].done /\ Len(iters["r1"].out) = 2
    /\ ~iters["r2"].done /\ Len(iters["r2"].out) = 1
    /\ iters["r2"].out[1] = iters["r1"].out[1]

====
